---- MODULE Spec2Model ----
(***************************************************************************)
(* Optimasol coordination core: the fleet registry (AllClients) with its   *)
(* leader clustering, the endpoint (Client) decision pipeline and the      *)
(* reference device driver (SmartEMDriver).                                *)
(*                                                                         *)
(* Client objects are numbered 1..NObj; two different objects may carry    *)
(* the same client_id.  Python's None is the empty sequence and a present  *)
(* value v is <<v>>.  Positions lie on one meridian, so the haversine      *)
(* distance of two clients is proportional to the difference of their      *)
(* latitudes; one distance unit is half a kilometre.  A decision ratio is  *)
(* counted in hundredths (Scale units make ratio 1.0).                     *)
(***************************************************************************)
EXTENDS Integers, Sequences, FiniteSets, TLC

\* ---------------------------------------------------------------- bounds
NObj == 3
MaxLat == 2
MaxPairs == 3
MaxForecast == 1
MaxVal == 1
MaxClock == 6
MaxDur == 3
MaxSerial == 2
MaxRuns == 2

\* ------------------------------------------------------ program constants
MINIMAL_DISTANCE == 2
Scale == 100

Obj == 1..NObj
\* The last client object is built with the id of the first one.
NIds == NObj - 1
Ids == 1..NIds
Forecasts == 1..MaxForecast
Vals == 1..MaxVal
Durations == 0..MaxDur

None == <<>>
Some(v) == <<v>>

client_id(o) == ((o - 1) % NIds) + 1
serial(o) == o

VARIABLES
    latitude,
    list_of_clients,
    clients_with_leaders,
    leaders,
    weather_infos,
    last_temperature,
    last_temperature_time,
    last_production,
    last_production_time,
    last_power,
    last_power_time,
    production_forecast,
    connexion,
    loop_running,
    subscriptions,
    now,
    call,
    stopper,
    stopped_at,
    monotonic,
    runner,
    triggers,
    device,
    data,
    first,
    rendement_global,
    auto_correction,
    config_weather,
    runs,
    writer,
    reader,
    reachable,
    started,
    inbound,
    shutdown

registry == <<list_of_clients, clients_with_leaders, leaders, weather_infos>>
telemetry == <<last_temperature, last_temperature_time, last_production,
               last_production_time, last_power, last_power_time>>
endpoint == <<telemetry, production_forecast>>
driver == <<connexion, loop_running, subscriptions>>
orchestrator == <<stopper, stopped_at, monotonic, runner, triggers>>
serialization == <<device, data, first>>
correction == <<rendement_global, auto_correction, config_weather, runs>>
background == <<correction, writer, reader, reachable, started, inbound, shutdown>>
service == <<orchestrator, serialization, background>>
vars == <<latitude, registry, endpoint, driver, now, call, service>>

\* A decision argument: a number (in hundredths) or a non-numeric object.
Num(n) == [kind |-> "float", v |-> n]
Str == [kind |-> "str", v |-> 0]

\* The observable outcome of the last call: what it raised and which
\* collaborator calls it made.
NoCall == [op |-> "init", client |-> 0, arg |-> Num(0), raised |-> "none",
           caught |-> "none", published |-> <<>>, subscribed |-> <<>>,
           callbacks |-> <<>>, solver_calls |-> 0, send_calls |-> 0,
           fetched |-> <<>>, rows |-> <<>>, processed |-> <<>>,
           handled |-> <<>>, committed |-> <<>>]

\* ------------------------------------------------------------ AllClients
Abs(x) == IF x < 0 THEN 0 - x ELSE x

dist_km(c, l) == Abs(latitude[l] - latitude[c])

\* A min that keeps the last element with the least key.
RECURSIVE PyMinLast(_, _, _)
PyMinLast(cands, i, best) ==
    IF i > Len(cands) THEN best
    ELSE PyMinLast(cands, i + 1, IF cands[i][1] <= best[1] THEN cands[i] ELSE best)

\* Python's min(candidates, key=...): the first element with the least key.
RECURSIVE PyMin(_, _, _)
PyMin(cands, i, best) ==
    IF i > Len(cands) THEN best
    ELSE PyMin(cands, i + 1, IF cands[i][1] < best[1] THEN cands[i] ELSE best)

closest_leader(c) ==
    IF leaders = <<>> THEN None
    ELSE LET candidates == [i \in 1..Len(leaders) |-> <<dist_km(c, leaders[i]), leaders[i]>>]
             best == PyMin(candidates, 2, candidates[1])
         IN  IF best[1] < MINIMAL_DISTANCE THEN Some(best[2]) ELSE None

\* A duplicate check by object identity instead of client_id.
IdExistsSameObject(c) ==
    \E i \in 1..Len(list_of_clients) : list_of_clients[i] = c

IdExists(c) ==
    \E i \in 1..Len(list_of_clients) : client_id(list_of_clients[i]) = client_id(c)

Add(c) ==
    IF IdExists(c)
    THEN /\ call' = [NoCall EXCEPT !.op = "add", !.client = c, !.raised = "ClientAlreadyExists"]
         /\ UNCHANGED <<latitude, registry, endpoint, driver, now, service>>
    ELSE /\ Len(clients_with_leaders) < MaxPairs
         /\ LET closest == closest_leader(c)
            IN  IF closest = None
                THEN /\ list_of_clients' = Append(list_of_clients, c)
                     /\ clients_with_leaders' = Append(clients_with_leaders, <<c, c>>)
                     /\ leaders' = Append(leaders, c)
                ELSE /\ list_of_clients' = Append(list_of_clients, c)
                     /\ clients_with_leaders' = Append(clients_with_leaders, <<c, closest[1]>>)
                     /\ UNCHANGED leaders
         /\ call' = [NoCall EXCEPT !.op = "add", !.client = c]
         /\ UNCHANGED <<latitude, weather_infos, endpoint, driver, now, service>>

\* list.remove(x): drops the first occurrence.
RemoveFirst(s, x) ==
    LET i == CHOOSE k \in 1..Len(s) : s[k] = x /\ \A j \in 1..(k - 1) : s[j] # x
    IN  [k \in 1..(Len(s) - 1) |-> IF k < i THEN s[k] ELSE s[k + 1]]

InList(s, x) == \E k \in 1..Len(s) : s[k] = x

\* A removal that also retires the removed client from the leaders.
delete_clientCascade(c) ==
    /\ IF InList(list_of_clients, c)
       THEN list_of_clients' = RemoveFirst(list_of_clients, c)
       ELSE UNCHANGED list_of_clients
    /\ IF InList(leaders, c)
       THEN leaders' = RemoveFirst(leaders, c)
       ELSE UNCHANGED leaders
    /\ call' = [NoCall EXCEPT !.op = "delete_client", !.client = c]
    /\ UNCHANGED <<latitude, clients_with_leaders, weather_infos,
                   endpoint, driver, now, service>>

delete_client(c) ==
    /\ IF InList(list_of_clients, c)
       THEN list_of_clients' = RemoveFirst(list_of_clients, c)
       ELSE UNCHANGED list_of_clients
    /\ call' = [NoCall EXCEPT !.op = "delete_client", !.client = c]
    /\ UNCHANGED <<latitude, clients_with_leaders, leaders, weather_infos,
                   endpoint, driver, now, service>>

\* update_forecasts: fetch[i] is the outcome of get_forecast_for_client for
\* the i-th leader, 0 when it raises.
RECURSIVE BuildDico(_, _, _)
BuildDico(fetch, i, dico) ==
    IF i > Len(leaders) THEN dico
    ELSE BuildDico(fetch, i + 1,
            IF fetch[i] = 0 THEN dico
            ELSE [k \in DOMAIN dico \cup {client_id(leaders[i])} |->
                    IF k = client_id(leaders[i]) THEN fetch[i] ELSE dico[k]])

EmptyDict == [k \in {} |-> 0]

FetchOutcomes == [1..Len(leaders) -> {0} \cup Forecasts]

update_forecasts(fetch) ==
    /\ weather_infos' = Some(BuildDico(fetch, 1, EmptyDict))
    /\ call' = [NoCall EXCEPT !.op = "update_forecasts", !.fetched = fetch]
    /\ UNCHANGED <<latitude, list_of_clients, clients_with_leaders, leaders,
                   endpoint, driver, now, service>>

\* ---------------------------------------------------------------- Client
_update_temperature(o, value) ==
    /\ last_temperature' = [last_temperature EXCEPT ![o] = Some(value)]
    /\ last_temperature_time' = [last_temperature_time EXCEPT ![o] = Some(now)]

_update_production(o, value) ==
    /\ last_production' = [last_production EXCEPT ![o] = Some(value)]
    /\ last_production_time' = [last_production_time EXCEPT ![o] = Some(now)]

_update_power(o, value) ==
    /\ last_power' = [last_power EXCEPT ![o] = Some(value)]
    /\ last_power_time' = [last_power_time EXCEPT ![o] = Some(now)]

\* A readiness test satisfied by either input alone.
is_readyEither(o) == last_temperature[o] # None \/ production_forecast[o] # None

is_ready(o) == last_temperature[o] # None /\ production_forecast[o] # None

\* ---------------------------------------------------------- SmartEMDriver
Topic(o, name) == <<serial(o), name>>
StrPayload(s) == [kind |-> "str", s |-> s, n |-> 0]
NumPayload(n) == [kind |-> "num", s |-> "", n |-> n]

\* One client.publish attempt made by _safe_publish; ok = FALSE when the
\* transport raises, which _safe_publish catches.
_safe_publish(o, name, payload, ok) ==
    [topic |-> Topic(o, name), payload |-> payload, ok |-> ok]

s2_mode == "1"

\* Argument checks without the lower limit of the range.
validateUpperOnly(decision) ==
    IF decision.kind # "float" THEN "TypeError"
    ELSE IF decision.v > Scale THEN "ValueError"
    ELSE "none"

\* The argument checks of send_decision: the exception they raise.
validate(decision) ==
    IF decision.kind # "float" THEN "TypeError"
    ELSE IF decision.v > Scale \/ decision.v < 0 THEN "ValueError"
    ELSE "none"

\* The ratio sent as it is, without scaling to 0..100.
dimmer_valueRaw(decision) == decision.v \div Scale

dimmer_value(decision) == (decision.v * 100) \div Scale

\* A send_decision that gives up at the first publish that raises.
send_decisionStopsOnFailure(o, decision, oks) ==
    IF ~connexion[o] THEN [raised |-> "none", published |-> <<>>]
    ELSE IF validate(decision) # "none"
         THEN [raised |-> validate(decision), published |-> <<>>]
    ELSE IF decision.v = 0
         THEN [raised |-> "none",
               published |-> <<_safe_publish(o, "SETMODE", StrPayload(s2_mode \o "0"), oks[1])>>]
    ELSE IF decision.v = Scale
         THEN [raised |-> "none",
               published |-> <<_safe_publish(o, "SETMODE", StrPayload(s2_mode \o "2"), oks[1])>>]
    ELSE IF ~oks[1]
         THEN [raised |-> "none",
               published |-> <<_safe_publish(o, "SETMODE", StrPayload(s2_mode \o "4"), oks[1])>>]
    ELSE [raised |-> "none",
          published |-> <<_safe_publish(o, "SETMODE", StrPayload(s2_mode \o "4"), oks[1]),
                          _safe_publish(o, "DIMMER1", NumPayload(dimmer_value(decision)), oks[2])>>]

\* What send_decision(decision) raises and publishes; oks[i] tells whether
\* the i-th publish attempt succeeds.
send_decision(o, decision, oks) ==
    IF ~connexion[o] THEN [raised |-> "none", published |-> <<>>]
    ELSE IF validate(decision) # "none"
         THEN [raised |-> validate(decision), published |-> <<>>]
    ELSE IF decision.v = 0
         THEN [raised |-> "none",
               published |-> <<_safe_publish(o, "SETMODE", StrPayload(s2_mode \o "0"), oks[1])>>]
    ELSE IF decision.v = Scale
         THEN [raised |-> "none",
               published |-> <<_safe_publish(o, "SETMODE", StrPayload(s2_mode \o "2"), oks[1])>>]
    ELSE [raised |-> "none",
          published |-> <<_safe_publish(o, "SETMODE", StrPayload(s2_mode \o "4"), oks[1]),
                          _safe_publish(o, "DIMMER1", NumPayload(dimmer_value(decision)), oks[2])>>]

Oks == [1..2 -> BOOLEAN]
DecisionArgs == {Str} \cup {Num(n) : n \in {0 - 50, 0, 50, Scale, Scale + 50}}

SendDecision(o, decision, oks) ==
    /\ LET r == send_decision(o, decision, oks)
       IN  call' = [NoCall EXCEPT !.op = "send_decision", !.client = o, !.arg = decision,
                                  !.raised = r.raised, !.published = r.published]
    /\ UNCHANGED <<latitude, registry, endpoint, driver, now, service>>

\* A safety mode that publishes whatever the connection state.
activate_safety_modeAlways(o, ok) ==
    /\ call' = [NoCall EXCEPT !.op = "activate_safety_mode", !.client = o,
                  !.published = <<_safe_publish(o, "SETMODE", StrPayload("11"), ok)>>]
    /\ UNCHANGED <<latitude, registry, endpoint, driver, now, service>>

activate_safety_mode(o, ok) ==
    /\ call' = [NoCall EXCEPT !.op = "activate_safety_mode", !.client = o,
                  !.published = IF ~connexion[o] THEN <<>>
                                ELSE <<_safe_publish(o, "SETMODE", StrPayload("11"), ok)>>]
    /\ UNCHANGED <<latitude, registry, endpoint, driver, now, service>>

\* start(): connect_ok = FALSE when client.connect raises.
start(o, connect_ok) ==
    /\ IF connect_ok
       THEN /\ loop_running' = [loop_running EXCEPT ![o] = TRUE]
            /\ UNCHANGED connexion
       ELSE /\ connexion' = [connexion EXCEPT ![o] = FALSE]
            /\ UNCHANGED loop_running
    /\ call' = [NoCall EXCEPT !.op = "start", !.client = o,
                              !.caught = IF connect_ok THEN "none" ELSE "Exception"]
    /\ UNCHANGED <<latitude, registry, endpoint, subscriptions, now, service>>

\* A connected callback that leaves the subscription to start().
_on_connect_internalNoSubscribe(o, rc) ==
    /\ loop_running[o]
    /\ connexion' = [connexion EXCEPT ![o] = (rc = 0)]
    /\ call' = [NoCall EXCEPT !.op = "on_connect", !.client = o, !.arg = Num(rc)]
    /\ UNCHANGED <<latitude, registry, endpoint, loop_running, subscriptions, now, service>>

\* The transport's network loop delivers the callbacks.
_on_connect_internal(o, rc) ==
    /\ loop_running[o]
    /\ IF rc = 0
       THEN /\ connexion' = [connexion EXCEPT ![o] = TRUE]
            /\ subscriptions' = [subscriptions EXCEPT ![o] = @ \cup {Topic(o, "DATA")}]
            /\ call' = [NoCall EXCEPT !.op = "on_connect", !.client = o,
                                      !.subscribed = <<Topic(o, "DATA")>>]
       ELSE /\ connexion' = [connexion EXCEPT ![o] = FALSE]
            /\ UNCHANGED subscriptions
            /\ call' = [NoCall EXCEPT !.op = "on_connect", !.client = o, !.arg = Num(rc)]
    /\ UNCHANGED <<latitude, registry, endpoint, loop_running, now, service>>

\* The broker session is clean: a lost connection drops its subscriptions.
_on_disconnect_internal(o) ==
    /\ loop_running[o]
    /\ connexion' = [connexion EXCEPT ![o] = FALSE]
    /\ subscriptions' = [subscriptions EXCEPT ![o] = {}]
    /\ call' = [NoCall EXCEPT !.op = "on_disconnect", !.client = o]
    /\ UNCHANGED <<latitude, registry, endpoint, loop_running, now, service>>

\* An inbound payload: parsed = FALSE when it does not decode to a JSON
\* object; a field is absent (None) or holds a value, 0 standing for a
\* value float() rejects.
FieldVals == {None} \cup {Some(v) : v \in {0} \cup Vals}
Payloads == [parsed : BOOLEAN, TEMP1 : FieldVals, PROD : FieldVals, POUT : FieldVals]

_on_mqtt_message_internal(o, msg) ==
    LET t_bad == msg.TEMP1 = Some(0)
        p_bad == msg.PROD = Some(0)
        w_bad == msg.POUT = Some(0)
        do_temp == msg.parsed /\ msg.TEMP1 # None /\ ~t_bad
        to_prod == msg.parsed /\ ~t_bad
        do_prod == to_prod /\ msg.PROD # None /\ ~p_bad
        to_pow == to_prod /\ ~p_bad
        do_pow == to_pow /\ msg.POUT # None /\ ~w_bad
        failed == ~msg.parsed \/ t_bad \/ (to_prod /\ p_bad) \/ (to_pow /\ w_bad)
    IN  /\ loop_running[o]
        /\ Topic(o, "DATA") \in subscriptions[o]
        /\ IF do_temp THEN _update_temperature(o, msg.TEMP1[1])
           ELSE UNCHANGED <<last_temperature, last_temperature_time>>
        /\ IF do_prod THEN _update_production(o, msg.PROD[1])
           ELSE UNCHANGED <<last_production, last_production_time>>
        /\ IF do_pow THEN _update_power(o, msg.POUT[1])
           ELSE UNCHANGED <<last_power, last_power_time>>
        /\ call' = [NoCall EXCEPT !.op = "on_message", !.client = o,
                      !.caught = IF failed THEN "Exception" ELSE "none",
                      !.callbacks =
                          (IF do_temp THEN <<<<"temperature", msg.TEMP1[1]>>>> ELSE <<>>)
                          \o (IF do_prod THEN <<<<"production", msg.PROD[1]>>>> ELSE <<>>)
                          \o (IF do_pow THEN <<<<"power", msg.POUT[1]>>>> ELSE <<>>)]
        /\ UNCHANGED <<latitude, registry, production_forecast, driver, now, service>>

\* ------------------------------------------------- Client.process/decision
\* The solver raises, returns a trajectory without decisions, or returns a
\* trajectory whose first decision is d.
SolverOutcomes == [kind : {"raise", "empty"}, d : {Num(0)}]
                  \cup [kind : {"decisions"}, d : DecisionArgs]

\* A process() whose try block does not cover send_decision.
process_callUncaught(o, sol, oks) ==
    IF ~is_ready(o)
    THEN [NoCall EXCEPT !.op = "process", !.client = o]
    ELSE IF sol.kind = "raise"
         THEN [NoCall EXCEPT !.op = "process", !.client = o,
                 !.solver_calls = 1, !.caught = "SolverError"]
    ELSE IF sol.kind = "empty"
         THEN [NoCall EXCEPT !.op = "process", !.client = o,
                 !.solver_calls = 1, !.caught = "IndexError"]
    ELSE LET r == send_decision(o, sol.d, oks)
         IN  [NoCall EXCEPT !.op = "process", !.client = o, !.arg = sol.d,
                !.solver_calls = 1, !.send_calls = 1,
                !.raised = r.raised, !.published = r.published]

\* The outcome of process(): the try/except around decision() and
\* send_decision() keeps every exception inside the call.
process_call(o, sol, oks) ==
    IF ~is_ready(o)
    THEN [NoCall EXCEPT !.op = "process", !.client = o]
    ELSE IF sol.kind = "raise"
         THEN [NoCall EXCEPT !.op = "process", !.client = o,
                 !.solver_calls = 1, !.caught = "SolverError"]
    ELSE IF sol.kind = "empty"
         THEN [NoCall EXCEPT !.op = "process", !.client = o,
                 !.solver_calls = 1, !.caught = "IndexError"]
    ELSE LET r == send_decision(o, sol.d, oks)
         IN  [NoCall EXCEPT !.op = "process", !.client = o, !.arg = sol.d,
                !.solver_calls = 1, !.send_calls = 1,
                !.caught = r.raised, !.published = r.published]

process(o, sol, oks) ==
    /\ call' = process_call(o, sol, oks)
    /\ UNCHANGED <<latitude, registry, endpoint, driver, now, service>>

\* ------------------------------------------------------ _process_clients
\* Whether the loop over the clients goes on after a client whose
\* processing ended as r: it always does, the except clause only logs.
loop_goes_onUnlessError(r) == r.raised = "none" /\ r.caught = "none"

loop_goes_on(r) == TRUE

\* The calls of process() made from the i-th client on, after those in done.
RECURSIVE process_from(_, _, _, _)
process_from(i, sols, oks, done) ==
    IF i > Len(list_of_clients) THEN done
    ELSE IF i > 1 /\ ~loop_goes_on(done[i - 1]) THEN done
    ELSE process_from(i + 1, sols, oks,
            Append(done, process_call(list_of_clients[i], sols[i], oks[i])))

_process_clients(sols, oks) ==
    /\ call' = [NoCall EXCEPT !.op = "_process_clients",
                              !.processed = process_from(1, sols, oks, <<>>)]
    /\ UNCHANGED <<latitude, registry, endpoint, driver, now, service>>

\* ------------------------------------------- AllClients.update_weather
leader_id_of_client(c) ==
    IF \E i \in 1..Len(clients_with_leaders) : clients_with_leaders[i][1] = c
    THEN LET i == CHOOSE k \in 1..Len(clients_with_leaders) :
                    /\ clients_with_leaders[k][1] = c
                    /\ \A j \in 1..(k - 1) : clients_with_leaders[j][1] # c
         IN  Some(client_id(clients_with_leaders[i][2]))
    ELSE None

\* update_production_client against the cache dico; conv_ok = FALSE when
\* the converter raises.  The result is the client's new production
\* forecast, or None when the call raises (KeyError or converter error).
\* A conversion that falls back on a default forecast when the leader has
\* no entry in the cache.
update_production_clientDefault(c, dico, conv_ok) ==
    LET leader_id == leader_id_of_client(c)
    IN  IF leader_id = None THEN None
        ELSE IF leader_id[1] \notin DOMAIN dico THEN Some(1)
        ELSE IF ~conv_ok THEN None
        ELSE Some(dico[leader_id[1]])

update_production_client(c, dico, conv_ok) ==
    LET leader_id == leader_id_of_client(c)
    IN  IF leader_id = None THEN None
        ELSE IF leader_id[1] \notin DOMAIN dico THEN None
        ELSE IF ~conv_ok THEN None
        ELSE Some(dico[leader_id[1]])

\* A refresh that clears the forecast of every member it cannot update.
update_weatherClearing(fetch, conv) ==
    LET dico == BuildDico(fetch, 1, EmptyDict)
    IN  /\ weather_infos' = Some(dico)
        /\ production_forecast' =
              [o \in Obj |->
                  IF InList(list_of_clients, o)
                  THEN update_production_client(o, dico, conv[o])
                  ELSE production_forecast[o]]
        /\ call' = [NoCall EXCEPT !.op = "update_weather", !.fetched = fetch]
        /\ UNCHANGED <<latitude, list_of_clients, clients_with_leaders, leaders,
                       telemetry, driver, now, service>>

\* A refresh without the try/except around each member: the first update
\* that raises ends the loop.
update_weatherUncaught(fetch, conv) ==
    LET dico == BuildDico(fetch, 1, EmptyDict)
        failing == {i \in 1..Len(list_of_clients) :
                      update_production_client(list_of_clients[i], dico,
                                               conv[list_of_clients[i]]) = None}
        reached(o) == \E i \in 1..Len(list_of_clients) :
                         /\ list_of_clients[i] = o
                         /\ \A j \in failing : i < j
    IN  /\ weather_infos' = Some(dico)
        /\ production_forecast' =
              [o \in Obj |->
                  IF reached(o) THEN update_production_client(o, dico, conv[o])
                  ELSE production_forecast[o]]
        /\ call' = [NoCall EXCEPT !.op = "update_weather", !.fetched = fetch]
        /\ UNCHANGED <<latitude, list_of_clients, clients_with_leaders, leaders,
                       telemetry, driver, now, service>>

update_weather(fetch, conv) ==
    LET dico == BuildDico(fetch, 1, EmptyDict)
    IN  /\ weather_infos' = Some(dico)
        /\ production_forecast' =
              [o \in Obj |->
                  IF InList(list_of_clients, o) /\ update_production_client(o, dico, conv[o]) # None
                  THEN update_production_client(o, dico, conv[o])
                  ELSE production_forecast[o]]
        /\ call' = [NoCall EXCEPT !.op = "update_weather", !.fetched = fetch]
        /\ UNCHANGED <<latitude, list_of_clients, clients_with_leaders, leaders,
                       telemetry, driver, now, service>>

\* ---------------------------------------------------------- orchestrator
\* The periodic tasks of main(): task t repeats its action every
\* interval_seconds(t) clock units.  A runner is at "test" (the loop
\* condition), "call" (about to read the clock and call its action), "func"
\* (inside the action), "wait" (inside stopper.wait) or "exit".  Only an
\* action and a wait take time; every other step happens at once.
Max(a, b) == IF a >= b THEN a ELSE b

\* Two of the tasks main() spawns, the database sync being the more frequent.
Tasks == {"WeatherUpdater", "DBSync"}

interval_seconds(t) == IF t = "DBSync" THEN 2 ELSE 3

NewRunner == [pc |-> "test", start |-> 0, until |-> 0, raises |-> FALSE,
              wake |-> 0, failures |-> 0, late |-> 0]

\* No task has run; no installation efficiency is known and nobody has
\* opted in; no callback, sync or message is under way; the broker answers
\* and main() has neither started the drivers nor joined a task.
InitService ==
    /\ stopper = FALSE
    /\ stopped_at = 0
    /\ monotonic = 0
    /\ runner = [t \in Tasks |-> NewRunner]
    /\ triggers = [t \in Tasks |-> <<>>]
    /\ device = None
    /\ data = None
    /\ first = None
    /\ rendement_global = [o \in Obj |-> None]
    /\ auto_correction = [k \in Ids |-> FALSE]
    /\ config_weather = [k \in Ids |-> None]
    /\ runs = 0
    /\ writer = [pc |-> "idle", k |-> 1, now_utc |-> 0]
    /\ reader = [pc |-> "idle", i |-> 1, value |-> None, conn |-> <<>>]
    /\ reachable = TRUE
    /\ started = FALSE
    /\ inbound = None
    /\ shutdown = [pc |-> "join", i |-> 1, deadline |-> 0, expired |-> {}, logged |-> {}]

\* while not stopper.is_set()
runner_test(t) ==
    /\ runner[t].pc = "test"
    /\ runner' = [runner EXCEPT ![t].pc = IF stopper THEN "exit" ELSE "call"]
    /\ UNCHANGED <<stopper, stopped_at, monotonic, triggers, serialization>>

\* start = time.monotonic(); func() is entered, will last d clock units and
\* end by returning or by raising.
runner_call(t, d, raises) ==
    /\ runner[t].pc = "call"
    /\ monotonic + d <= MaxClock
    /\ runner' = [runner EXCEPT ![t].pc = "func",
                                ![t].start = monotonic,
                                ![t].until = monotonic + d,
                                ![t].raises = raises,
                                ![t].late = @ + (IF stopper THEN 1 ELSE 0)]
    /\ triggers' = [triggers EXCEPT ![t] = Append(@, monotonic)]
    /\ UNCHANGED <<stopper, stopped_at, monotonic, serialization>>

\* The runner's position after its action has ended: an exception is logged
\* and the loop goes on.
after_funcUncaught(raises) == IF raises THEN "exit" ELSE "wait"

after_func(raises) == "wait"

\* elapsed = time.monotonic() - start; wait_time = max(interval - elapsed, 0)
runner_return(t) ==
    /\ runner[t].pc = "func"
    /\ monotonic = runner[t].until
    /\ LET elapsed == monotonic - runner[t].start
           wait_time == Max(interval_seconds(t) - elapsed, 0)
       IN  runner' = [runner EXCEPT
                         ![t].pc = after_func(runner[t].raises),
                         ![t].wake = monotonic + wait_time,
                         ![t].failures = IF runner[t].raises THEN @ + 1 ELSE 0]
    /\ UNCHANGED <<stopper, stopped_at, monotonic, triggers, serialization>>

\* stopper.wait(wait_time) returns when the event is set or the time is up.
wait_returnsTimeoutOnly(t) == monotonic >= runner[t].wake

wait_returns(t) == stopper \/ monotonic >= runner[t].wake

runner_wake(t) ==
    /\ runner[t].pc = "wait"
    /\ wait_returns(t)
    /\ runner' = [runner EXCEPT ![t].pc = "test"]
    /\ UNCHANGED <<stopper, stopped_at, monotonic, triggers, serialization>>

\* stopper.set()
Stop ==
    /\ ~stopper
    /\ stopper' = TRUE
    /\ stopped_at' = monotonic
    /\ UNCHANGED <<monotonic, runner, triggers, serialization>>

\* A runner that can take a step now.
Due(t) ==
    \/ runner[t].pc \in {"test", "call"}
    \/ runner[t].pc = "func" /\ monotonic = runner[t].until
    \/ runner[t].pc = "wait" /\ wait_returns(t)

\* The monotonic clock advances when no runner has a step to take.
Tick ==
    /\ monotonic < MaxClock
    /\ \A t \in Tasks : ~Due(t)
    /\ monotonic' = monotonic + 1
    /\ UNCHANGED <<stopper, stopped_at, runner, triggers, serialization>>

\* ------------------------------------------------------------ database
\* The rows a loader reads from the users table: one row per client id (the
\* primary key), in the order the SELECT returns them, with weather_ref 0
\* for NULL.  The Client built
\* from the row of id k is object k.  Building a row's Client either fails
\* ("error") or succeeds with its driver started ("started") or with the
\* broker out of reach ("offline").
Refs == {0} \cup Ids
Rows == [id : Ids, weather_ref : Refs]
Tables ==
    {t \in UNION {[1..n -> Rows] : n \in 0..NIds} :
        \A i \in 1..Len(t), j \in 1..Len(t) : i # j => t[i].id # t[j].id}
RowOutcomes == {"error", "started", "offline"}

NewAllClients == [list_of_clients |-> <<>>, clients_with_leaders |-> <<>>, leaders |-> <<>>]

\* _closest_leader over the leaders of the registry being built.
closest_among(ls, c) ==
    IF ls = <<>> THEN None
    ELSE LET candidates == [i \in 1..Len(ls) |-> <<dist_km(c, ls[i]), ls[i]>>]
             best == PyMin(candidates, 2, candidates[1])
         IN  IF best[1] < MINIMAL_DISTANCE THEN Some(best[2]) ELSE None

\* manager.add(client) on the registry being built; a duplicate id raises
\* and leaves it as it is.
manager_add(m, c) ==
    IF \E i \in 1..Len(m.list_of_clients) : client_id(m.list_of_clients[i]) = client_id(c)
    THEN m
    ELSE LET closest == closest_among(m.leaders, c)
         IN  IF closest = None
             THEN [list_of_clients |-> Append(m.list_of_clients, c),
                   clients_with_leaders |-> Append(m.clients_with_leaders, <<c, c>>),
                   leaders |-> Append(m.leaders, c)]
             ELSE [list_of_clients |-> Append(m.list_of_clients, c),
                   clients_with_leaders |-> Append(m.clients_with_leaders, <<c, closest[1]>>),
                   leaders |-> m.leaders]

\* The loop of get_all_clients_engine: a row that fails is reported and
\* skipped, every other row's client is added.
RECURSIVE LoadRows(_, _, _, _)
LoadRows(rows, outcome, i, m) ==
    IF i > Len(rows) THEN m
    ELSE LoadRows(rows, outcome, i + 1,
            IF outcome[i] = "error" THEN m ELSE manager_add(m, rows[i].id))

\* The drivers after the clients of rows 1..n have been built.
StartedLoops(rows, outcome, n) ==
    [o \in Obj |->
        IF \E i \in 1..n : rows[i].id = o /\ outcome[i] = "started" THEN TRUE
        ELSE IF \E i \in 1..n : rows[i].id = o THEN FALSE
        ELSE loop_running[o]]

\* The registry is loaded once, before anything else is done with it.
AtStartup ==
    /\ call.op = "init"
    /\ list_of_clients = <<>> /\ clients_with_leaders = <<>> /\ leaders = <<>>

get_all_clients_engine(rows, outcome) ==
    /\ AtStartup
    /\ LET manager == LoadRows(rows, outcome, 1, NewAllClients)
       IN  /\ list_of_clients' = manager.list_of_clients
           /\ clients_with_leaders' = manager.clients_with_leaders
           /\ leaders' = manager.leaders
    /\ loop_running' = StartedLoops(rows, outcome, Len(rows))
    /\ call' = [NoCall EXCEPT !.op = "get_all_clients_engine", !.rows = rows]
    /\ UNCHANGED <<latitude, weather_infos, endpoint, connexion, subscriptions,
                   now, service>>

\* sorted(clients.keys())
RECURSIVE SortedSeq(_)
SortedSeq(S) ==
    IF S = {} THEN <<>>
    ELSE LET least == CHOOSE x \in S : \A y \in S : x <= y
         IN  <<least>> \o SortedSeq(S \ {least})

RowIds(rows) == {rows[i].id : i \in 1..Len(rows)}

\* weather_refs.get(client_id), the client itself when NULL, and the client
\* itself again when no row has that id.
leader_obj(rows, k) ==
    LET ref == (CHOOSE r \in {rows[i] : i \in 1..Len(rows)} : r.id = k).weather_ref
        leader_id == IF ref = 0 THEN k ELSE ref
    IN  IF leader_id \in RowIds(rows) THEN leader_id ELSE k

\* The leaders in the order they are first met, one per client_id.
RECURSIVE SeenLeaders(_, _, _, _)
SeenLeaders(rows, keys, i, ls) ==
    IF i > Len(keys) THEN ls
    ELSE LET l == leader_obj(rows, keys[i])
         IN  SeenLeaders(rows, keys, i + 1,
                IF \E j \in 1..Len(ls) : client_id(ls[j]) = client_id(l)
                THEN ls ELSE Append(ls, l))

\* Only the clients that are their own leader.
PersistedLeadersOwn(rows) ==
    SortedSeq({k \in RowIds(rows) : leader_obj(rows, k) = k})

PersistedLeaders(rows) == SeenLeaders(rows, SortedSeq(RowIds(rows)), 1, <<>>)

\* ClientManager.get_all_clients: any row that cannot be built raises out
\* of the call after the earlier rows' clients have been built.
get_all_clients(rows, outcome) ==
    /\ AtStartup
    /\ IF \E i \in 1..Len(rows) : outcome[i] = "error"
       THEN LET bad == CHOOSE i \in 1..Len(rows) :
                          outcome[i] = "error" /\ \A j \in 1..(i - 1) : outcome[j] # "error"
            IN  /\ loop_running' = StartedLoops(rows, outcome, bad - 1)
                /\ call' = [NoCall EXCEPT !.op = "get_all_clients", !.rows = rows,
                                         !.raised = "ValueError"]
                /\ UNCHANGED <<list_of_clients, clients_with_leaders, leaders>>
       ELSE LET keys == SortedSeq(RowIds(rows))
            IN  /\ list_of_clients' = keys
                /\ clients_with_leaders' =
                      [i \in 1..Len(keys) |-> <<keys[i], leader_obj(rows, keys[i])>>]
                /\ leaders' = PersistedLeaders(rows)
                /\ loop_running' = StartedLoops(rows, outcome, Len(rows))
                /\ call' = [NoCall EXCEPT !.op = "get_all_clients", !.rows = rows]
    /\ UNCHANGED <<latitude, weather_infos, endpoint, connexion, subscriptions,
                   now, service>>

\* ------------------------------------------------- driver serialization
\* A configuration value is a string (a sequence of characters) or
\* something that is not a string; a dict maps some of the keys to values.
SerialChars == {"R", "7"}
Strings == UNION {[1..n -> SerialChars] : n \in 0..MaxSerial}
StrValue(s) == [kind |-> "str", v |-> s]
NotAString == [kind |-> "int", v |-> <<>>]
Values == {StrValue(s) : s \in Strings} \cup {NotAString}
Keys == {"serial_number", "label"}
Dicts == UNION {[K -> Values] : K \in SUBSET Keys}

\* SmartEMDriver(**kwargs): None when the constructor raises ValueError.
SmartEMDriver(kwargs) ==
    IF \/ "serial_number" \notin DOMAIN kwargs
       \/ kwargs["serial_number"].kind # "str"
       \/ kwargs["serial_number"].v = <<>>
    THEN None
    ELSE Some([serial |-> kwargs["serial_number"].v, config |-> kwargs])

\* A serialization under another key than the constructor reads.
device_to_dictSerialKey(d) == [k \in {"serial"} |-> StrValue(d.serial)]

device_to_dict(d) == [k \in {"serial_number"} |-> StrValue(d.serial)]

dict_to_device(dict) == SmartEMDriver(dict)

NewDriver(kwargs) ==
    /\ call.op = "init"
    /\ device = None
    /\ device' = SmartEMDriver(kwargs)
    /\ call' = [NoCall EXCEPT !.op = "SmartEMDriver",
                              !.raised = IF SmartEMDriver(kwargs) = None
                                         THEN "ValueError" ELSE "none"]
    /\ UNCHANGED <<data, first>>

DeviceToDict ==
    /\ device # None
    /\ data' = Some(device_to_dict(device[1]))
    /\ first' = IF first = None THEN Some(device_to_dict(device[1])) ELSE first
    /\ call' = [NoCall EXCEPT !.op = "device_to_dict"]
    /\ UNCHANGED device

DictToDevice ==
    /\ data # None
    /\ device' = dict_to_device(data[1])
    /\ call' = [NoCall EXCEPT !.op = "dict_to_device",
                              !.raised = IF dict_to_device(data[1]) = None
                                         THEN "ValueError" ELSE "none"]
    /\ UNCHANGED <<data, first>>

\* ------------------------------------------------------------------ Init
InitRegistry ==
    /\ latitude \in [Obj -> 0..MaxLat]
    /\ list_of_clients = <<>>
    /\ clients_with_leaders = <<>>
    /\ leaders = <<>>
    /\ weather_infos = None
    /\ last_temperature = [o \in Obj |-> None]
    /\ last_temperature_time = [o \in Obj |-> None]
    /\ last_production = [o \in Obj |-> None]
    /\ last_production_time = [o \in Obj |-> None]
    /\ last_power = [o \in Obj |-> None]
    /\ last_power_time = [o \in Obj |-> None]
    /\ production_forecast = [o \in Obj |-> None]
    /\ connexion = [o \in Obj |-> FALSE]
    /\ loop_running = [o \in Obj |-> FALSE]
    /\ subscriptions = [o \in Obj |-> {}]
    /\ now = 0
    /\ call = NoCall
    /\ InitService

NextRegistry ==
    \/ \E c \in Obj : Add(c)
    \/ \E c \in Obj : delete_client(c)

SpecRegistry == InitRegistry /\ [][NextRegistry]_vars

\* The registry with its forecast cache; the clients stand one distance
\* unit apart along the meridian.
InitFleet ==
    /\ InitRegistry
    /\ latitude = [o \in Obj |-> (o - 1) % (MaxLat + 1)]

NextFleet ==
    \/ \E c \in Obj : Add(c)
    \/ \E c \in Obj : delete_client(c)
    \/ \E fetch \in FetchOutcomes : update_forecasts(fetch)

SpecFleet == InitFleet /\ [][NextFleet]_vars

\* One endpoint with its driver, registered in an otherwise empty registry.
InitClient ==
    /\ latitude = [o \in Obj |-> 0]
    /\ list_of_clients = <<1>>
    /\ clients_with_leaders = << <<1, 1>> >>
    /\ leaders = <<1>>
    /\ weather_infos = None
    /\ last_temperature = [o \in Obj |-> None]
    /\ last_temperature_time = [o \in Obj |-> None]
    /\ last_production = [o \in Obj |-> None]
    /\ last_production_time = [o \in Obj |-> None]
    /\ last_power = [o \in Obj |-> None]
    /\ last_power_time = [o \in Obj |-> None]
    /\ production_forecast = [o \in Obj |-> None]
    /\ connexion = [o \in Obj |-> FALSE]
    /\ loop_running = [o \in Obj |-> FALSE]
    /\ subscriptions = [o \in Obj |-> {}]
    /\ now = 0
    /\ call = NoCall
    /\ InitService

Members == {list_of_clients[i] : i \in 1..Len(list_of_clients)}

NextClient ==
    \/ \E o \in Members, b \in BOOLEAN : start(o, b)
    \/ \E o \in Members, rc \in {0, 5} : _on_connect_internal(o, rc)
    \/ \E o \in Members : _on_disconnect_internal(o)
    \/ \E o \in Members, msg \in Payloads : _on_mqtt_message_internal(o, msg)
    \/ \E o \in Members, d \in DecisionArgs, oks \in Oks : SendDecision(o, d, oks)
    \/ \E o \in Members, ok \in BOOLEAN : activate_safety_mode(o, ok)
    \/ \E o \in Members, sol \in SolverOutcomes, oks \in Oks : process(o, sol, oks)
    \/ \E fetch \in FetchOutcomes, conv \in [Members -> BOOLEAN] : update_weather(fetch, conv)

SpecClient == InitClient /\ [][NextClient]_vars

\* The periodic tasks of the service, over a registry that stays empty.
core == <<latitude, registry, endpoint, driver, now, call, serialization, background>>

InitTasks == InitFleet

NextTasks ==
    \/ \E t \in Tasks : runner_test(t) /\ UNCHANGED core
    \/ \E t \in Tasks, d \in Durations, raises \in BOOLEAN :
          runner_call(t, d, raises) /\ UNCHANGED core
    \/ \E t \in Tasks : runner_return(t) /\ UNCHANGED core
    \/ \E t \in Tasks : runner_wake(t) /\ UNCHANGED core
    \/ Stop /\ UNCHANGED core
    \/ Tick /\ UNCHANGED core

SpecTasks == InitTasks /\ [][NextTasks]_vars

\* Every runner is scheduled and time passes.
FairTasks ==
    /\ SpecTasks
    /\ WF_vars(Tick /\ UNCHANGED core)
    /\ \A t \in Tasks :
          WF_vars((runner_test(t) \/ runner_return(t) \/ runner_wake(t)
                   \/ \E d \in Durations, raises \in BOOLEAN : runner_call(t, d, raises))
                  /\ UNCHANGED core)


\* The registry as the service finds it in the database and as later
\* registrations and removals change it.
InitStore == InitFleet

NextStore ==
    \/ /\ AtStartup
       /\ \E rows \in Tables : \E outcome \in [1..Len(rows) -> RowOutcomes] :
             get_all_clients_engine(rows, outcome)
    \/ /\ AtStartup
       /\ \E rows \in Tables : \E outcome \in [1..Len(rows) -> RowOutcomes] :
             get_all_clients(rows, outcome)
    \/ \E c \in Obj : Add(c)
    \/ \E c \in Obj : delete_client(c)

SpecStore == InitStore /\ [][NextStore]_vars

\* One driver built from a configuration, serialized and rebuilt.
InitDriverDict == InitFleet

rest == <<latitude, registry, endpoint, driver, now, orchestrator, background>>

NextDriverDict ==
    \/ \E kwargs \in Dicts : NewDriver(kwargs) /\ UNCHANGED rest
    \/ DeviceToDict /\ UNCHANGED rest
    \/ DictToDevice /\ UNCHANGED rest

SpecDriverDict == InitDriverDict /\ [][NextDriverDict]_vars

\* Two registered endpoints, the second following the first, with their
\* drivers started, connected and subscribed; telemetry brings them
\* temperatures, the weather refresh forecasts, and decision ticks run.
InitTick ==
    /\ latitude = [o \in Obj |-> 0]
    /\ list_of_clients = <<1, 2>>
    /\ clients_with_leaders = << <<1, 1>>, <<2, 1>> >>
    /\ leaders = <<1>>
    /\ weather_infos = None
    /\ last_temperature = [o \in Obj |-> None]
    /\ last_temperature_time = [o \in Obj |-> None]
    /\ last_production = [o \in Obj |-> None]
    /\ last_production_time = [o \in Obj |-> None]
    /\ last_power = [o \in Obj |-> None]
    /\ last_power_time = [o \in Obj |-> None]
    /\ production_forecast = [o \in Obj |-> None]
    /\ connexion = [o \in Obj |-> o \in {1, 2}]
    /\ loop_running = [o \in Obj |-> o \in {1, 2}]
    /\ subscriptions = [o \in Obj |-> IF o \in {1, 2} THEN {Topic(o, "DATA")} ELSE {}]
    /\ now = 0
    /\ call = NoCall
    /\ InitService

TickPayloads == {msg \in Payloads : msg.parsed /\ msg.PROD = None /\ msg.POUT = None}

TickSolver == {sol \in SolverOutcomes :
                  sol.kind = "decisions" => sol.d \in {Num(50), Num(Scale + 50)}}

NextTick ==
    \/ \E o \in Members, msg \in TickPayloads : _on_mqtt_message_internal(o, msg)
    \/ \E fetch \in FetchOutcomes, conv \in [Members -> BOOLEAN] : update_weather(fetch, conv)
    \/ \E sols \in [1..Len(list_of_clients) -> TickSolver], ok \in Oks :
          _process_clients(sols, [i \in 1..Len(list_of_clients) |-> ok])

SpecTick == InitTick /\ [][NextTick]_vars

\* -------------------------------------------------- efficiency correction
\* Efficiencies are counted in millionths, coefficients in hundredths.
EffOne == 1000000

\* What one endpoint meets in a run: whether the opt-in flag can be read,
\* whether its histories can be read and hold rows, whether the evaluator
\* yields a coefficient and which, and whether the profile can be saved;
\* one representative of the outcomes that differ in no step that runs.
EffCases ==
    {x \in [flag : BOOLEAN, read : {"error", "empty", "rows"}, evaluator : BOOLEAN,
            coef : {0, 50, 200}, save : BOOLEAN] :
        /\ x.flag \/ (x.read = "rows" /\ x.evaluator /\ x.coef = 50 /\ x.save)
        /\ x.read = "rows" \/ (x.evaluator /\ x.coef = 50 /\ x.save)
        /\ x.evaluator \/ (x.coef = 50 /\ x.save)
        /\ x.coef > 0 \/ x.save}

\* new_rendement = max(min(rendement_global * coefficient, 1.0), 1e-6)
new_rendement(r, coefficient) ==
    LET new == (r * coefficient) \div 100
    IN IF new > EffOne THEN EffOne ELSE IF new < 1 THEN 1 ELSE new

\* The loop of main._update_efficiency from the i-th endpoint on.
RECURSIVE update_efficiency_from(_, _, _)
update_efficiency_from(i, outs, st) ==
    IF i > Len(list_of_clients) \/ st.raised # "none" THEN st
    ELSE LET c == list_of_clients[i]
             out == outs[i]
             seen == [st EXCEPT !.handled = Append(@, c)]
         IN update_efficiency_from(i + 1, outs,
              IF out.read = "error" THEN [seen EXCEPT !.raised = "PersistenceFailure"]
              ELSE IF out.read = "empty" THEN seen
              ELSE IF ~out.evaluator THEN seen
              ELSE IF out.coef <= 0 THEN seen
              ELSE IF st.rg[c] = None THEN seen
              ELSE LET new == new_rendement(st.rg[c][1], out.coef)
                   IN [seen EXCEPT !.rg[c] = Some(new),
                                   !.cw[client_id(c)] = IF out.save THEN Some(new) ELSE @])

_update_efficiency(outs) ==
    /\ runs < MaxRuns
    /\ LET st == update_efficiency_from(1, outs,
                    [rg |-> rendement_global, cw |-> config_weather,
                     handled |-> <<>>, raised |-> "none"])
       IN /\ rendement_global' = st.rg
          /\ config_weather' = st.cw
          /\ call' = [NoCall EXCEPT !.op = "_update_efficiency",
                                    !.handled = st.handled,
                                    !.raised = st.raised]
    /\ runs' = runs + 1
    /\ UNCHANGED <<latitude, registry, endpoint, driver, now, orchestrator,
                   serialization, auto_correction, writer, reader, reachable, started, inbound, shutdown>>

\* The loop of tasks.correct_efficiency from the i-th endpoint on.
RECURSIVE correct_efficiency_from(_, _, _)
correct_efficiency_from(i, outs, st) ==
    IF i > Len(list_of_clients) \/ st.raised # "none" THEN st
    ELSE LET c == list_of_clients[i]
             out == outs[i]
             seen == [st EXCEPT !.handled = Append(@, c)]
         IN correct_efficiency_from(i + 1, outs,
              IF ~out.flag THEN [seen EXCEPT !.raised = "ValueError"]
              ELSE IF ~auto_correction[client_id(c)] THEN seen
              ELSE IF out.read = "error" THEN [seen EXCEPT !.raised = "PersistenceFailure"]
              ELSE IF out.read = "empty" THEN seen
              ELSE IF ~out.evaluator THEN [seen EXCEPT !.raised = "Exception"]
              ELSE IF st.rg[c] = None THEN seen
              ELSE LET new == (st.rg[c][1] * out.coef) \div 100
                   IN IF out.save
                      THEN [seen EXCEPT !.rg[c] = Some(new),
                                        !.cw[client_id(c)] = Some(new)]
                      ELSE [seen EXCEPT !.rg[c] = Some(new),
                                        !.raised = "PersistenceFailure"])

correct_efficiency(outs) ==
    /\ runs < MaxRuns
    /\ LET st == correct_efficiency_from(1, outs,
                    [rg |-> rendement_global, cw |-> config_weather,
                     handled |-> <<>>, raised |-> "none"])
       IN /\ rendement_global' = st.rg
          /\ config_weather' = st.cw
          /\ call' = [NoCall EXCEPT !.op = "correct_efficiency",
                                    !.handled = st.handled,
                                    !.raised = st.raised]
    /\ runs' = runs + 1
    /\ UNCHANGED <<latitude, registry, endpoint, driver, now, orchestrator,
                   serialization, auto_correction, writer, reader, reachable, started, inbound, shutdown>>

\* Two registered endpoints with a known efficiency, saved as it is, each
\* opted in or not.
InitEfficiency ==
    /\ latitude = [o \in Obj |-> 0]
    /\ list_of_clients = <<1, 2>>
    /\ clients_with_leaders = << <<1, 1>>, <<2, 1>> >>
    /\ leaders = <<1>>
    /\ weather_infos = None
    /\ last_temperature = [o \in Obj |-> None]
    /\ last_temperature_time = [o \in Obj |-> None]
    /\ last_production = [o \in Obj |-> None]
    /\ last_production_time = [o \in Obj |-> None]
    /\ last_power = [o \in Obj |-> None]
    /\ last_power_time = [o \in Obj |-> None]
    /\ production_forecast = [o \in Obj |-> None]
    /\ connexion = [o \in Obj |-> FALSE]
    /\ loop_running = [o \in Obj |-> FALSE]
    /\ subscriptions = [o \in Obj |-> {}]
    /\ now = 0
    /\ call = NoCall
    /\ stopper = FALSE
    /\ stopped_at = 0
    /\ monotonic = 0
    /\ runner = [t \in Tasks |-> NewRunner]
    /\ triggers = [t \in Tasks |-> <<>>]
    /\ device = None
    /\ data = None
    /\ first = None
    /\ rendement_global = [o \in Obj |-> IF o \in {1, 2} THEN Some(EffOne \div 2) ELSE None]
    /\ config_weather = [k \in Ids |-> Some(EffOne \div 2)]
    /\ auto_correction \in [Ids -> BOOLEAN]
    /\ runs = 0
    /\ writer = [pc |-> "idle", k |-> 1, now_utc |-> 0]
    /\ reader = [pc |-> "idle", i |-> 1, value |-> None, conn |-> <<>>]
    /\ reachable = TRUE
    /\ started = FALSE
    /\ inbound = None
    /\ shutdown = [pc |-> "join", i |-> 1, deadline |-> 0, expired |-> {}, logged |-> {}]

NextEfficiency ==
    \/ \E outs \in [1..Len(list_of_clients) -> EffCases] : _update_efficiency(outs)
    \/ \E outs \in [1..Len(list_of_clients) -> EffCases] : correct_efficiency(outs)

SpecEfficiency == InitEfficiency /\ [][NextEfficiency]_vars

\* ---------------------------------------------------------- telemetry sync
\* One INSERT into a measure table: the buffered value and its timestamp,
\* which is None when the timestamp attribute is still unset.
Insert(table, c, value, time) ==
    [table |-> table, client_id |-> client_id(c), value |-> value[1], timestamp |-> time]

\* The INSERTs DBManager.update_db_service executes from the i-th endpoint
\* on.
RECURSIVE service_rows(_)
service_rows(i) ==
    IF i > Len(list_of_clients) THEN <<>>
    ELSE LET c == list_of_clients[i]
         IN (IF ~is_ready(c) THEN <<>>
             ELSE (IF last_temperature[c] # None
                   THEN <<Insert("temperatures", c, last_temperature[c],
                                 last_temperature_time[c])>>
                   ELSE <<>>)
                  \o (IF last_production[c] # None
                      THEN <<Insert("productions_measures", c, last_production[c],
                                    last_production_time[c])>>
                      ELSE <<>>))
            \o service_rows(i + 1)

\* The reports tasks.reports_data sends from the i-th endpoint on.
RECURSIVE report_rows(_)
report_rows(i) ==
    IF i > Len(list_of_clients) THEN <<>>
    ELSE LET c == list_of_clients[i]
         IN (IF last_power[c] # None /\ last_power_time[c] # None
             THEN <<Insert("decisions_measures", c, last_power[c], last_power_time[c])>>
             ELSE <<>>)
            \o (IF last_temperature[c] # None /\ last_temperature_time[c] # None
                THEN <<Insert("temperatures", c, last_temperature[c],
                              last_temperature_time[c])>>
                ELSE <<>>)
            \o (IF last_production[c] # None /\ last_production_time[c] # None
                THEN <<Insert("productions_measures", c, last_production[c],
                              last_production_time[c])>>
                ELSE <<>>)
            \o report_rows(i + 1)

\* The first INSERT that raises: the fail_at-th one, which the database
\* rejects, or an earlier one whose timestamp is None (None.isoformat());
\* 0 when every INSERT succeeds.
FirstFailure(rows, fail_at) ==
    LET bad == {i \in 1..Len(rows) : rows[i].timestamp = None \/ i = fail_at}
    IN IF bad = {} THEN 0 ELSE CHOOSE i \in bad : \A j \in bad : i <= j

\* One connection, one commit after the loop, close without commit when an
\* INSERT raises.
update_db_service(fail_at) ==
    LET rows == service_rows(1)
        f == FirstFailure(rows, fail_at)
    IN [committed |-> IF f = 0 THEN rows ELSE <<>>,
        raised |-> IF f = 0 THEN "none" ELSE "Exception"]

\* main._sync_db: the sync with the task-level try/except around it.
_sync_db(fail_at) ==
    /\ fail_at <= Len(service_rows(1))
    /\ LET r == update_db_service(fail_at)
       IN call' = [NoCall EXCEPT !.op = "_sync_db", !.arg = Num(fail_at),
                                 !.committed = r.committed, !.caught = r.raised]
    /\ UNCHANGED <<latitude, registry, endpoint, driver, now, service>>

\* tasks.reports_data: every report is an INSERT committed on its own.
reports_data(fail_at) ==
    /\ fail_at <= Len(report_rows(1))
    /\ LET rows == report_rows(1)
           f == FirstFailure(rows, fail_at)
       IN call' = [NoCall EXCEPT !.op = "reports_data", !.arg = Num(fail_at),
                     !.committed = IF f = 0 THEN rows ELSE SubSeq(rows, 1, f - 1),
                     !.raised = IF f = 0 THEN "none" ELSE "PersistenceFailure"]
    /\ UNCHANGED <<latitude, registry, endpoint, driver, now, service>>

\* Messages that parse, each field absent or carrying the same reading.
SyncPayloads == {msg \in Payloads :
                    /\ msg.parsed
                    /\ \A f \in {msg.TEMP1, msg.PROD, msg.POUT} : f \in {None, Some(1)}}

\* Two registered endpoints with connected drivers; telemetry arrives, the
\* weather refresh brings forecasts and the telemetry sync runs.
NextSync ==
    \/ \E o \in Members, msg \in SyncPayloads : _on_mqtt_message_internal(o, msg)
    \/ \E conv \in [Members -> BOOLEAN] : update_weather([i \in 1..Len(leaders) |-> 1], conv)
    \/ \E fail_at \in 0..(2 * Len(list_of_clients)) : _sync_db(fail_at)
    \/ \E fail_at \in 0..(3 * Len(list_of_clients)) : reports_data(fail_at)

SpecSync == InitTick /\ [][NextSync]_vars

\* ------------------------------------- telemetry callbacks against the sync
\* The transport thread runs the callbacks statement by statement while the
\* sync thread runs update_db_service read by read.  The k-th message
\* carries the reading Messages[k] for the temperature and the production
\* and arrives at instant k.
Messages == <<1, 2>>

\* The other thread's variables and everything no step of either touches.
idle_state == <<latitude, registry, production_forecast, driver, orchestrator,
                serialization, correction, reachable, started, inbound, shutdown>>

\* _update_temperature: now_utc = datetime.now(); self.last_temperature = value
update_temperature_value(o) ==
    /\ writer.pc = "idle"
    /\ writer.k <= Len(Messages)
    /\ loop_running[o]
    /\ Topic(o, "DATA") \in subscriptions[o]
    /\ now' = now + 1
    /\ last_temperature' = [last_temperature EXCEPT ![o] = Some(Messages[writer.k])]
    /\ writer' = [writer EXCEPT !.pc = "temperature_time", !.now_utc = now']
    /\ UNCHANGED <<last_temperature_time, last_production, last_production_time,
                   last_power, last_power_time, call, reader, idle_state>>

\* _update_temperature: self.last_temperature_time = now_utc
update_temperature_time(o) ==
    /\ writer.pc = "temperature_time"
    /\ last_temperature_time' = [last_temperature_time EXCEPT ![o] = Some(writer.now_utc)]
    /\ writer' = [writer EXCEPT !.pc = "production_value"]
    /\ UNCHANGED <<last_temperature, last_production, last_production_time,
                   last_power, last_power_time, now, call, reader, idle_state>>

\* _update_production: now_utc = datetime.now(); self.last_production = value
update_production_value(o) ==
    /\ writer.pc = "production_value"
    /\ last_production' = [last_production EXCEPT ![o] = Some(Messages[writer.k])]
    /\ writer' = [writer EXCEPT !.pc = "production_time", !.now_utc = now]
    /\ UNCHANGED <<last_temperature, last_temperature_time, last_production_time,
                   last_power, last_power_time, now, call, reader, idle_state>>

\* _update_production: self.last_production_time = now_utc
update_production_time(o) ==
    /\ writer.pc = "production_time"
    /\ last_production_time' = [last_production_time EXCEPT ![o] = Some(writer.now_utc)]
    /\ writer' = [writer EXCEPT !.pc = "idle", !.k = @ + 1]
    /\ UNCHANGED <<last_temperature, last_temperature_time, last_production,
                   last_power, last_power_time, now, call, reader, idle_state>>

\* The reader moves on to the next endpoint, or to the commit after the last.
next_client == IF reader.i < Len(list_of_clients)
               THEN [reader EXCEPT !.pc = "is_ready", !.i = @ + 1, !.value = None]
               ELSE [reader EXCEPT !.pc = "commit", !.value = None]

\* conn = self._get_conn(); for client in all_clients.list_of_clients
sync_begin ==
    /\ reader.pc = "idle"
    /\ reader' = IF list_of_clients = <<>>
                 THEN [pc |-> "commit", i |-> 1, value |-> None, conn |-> <<>>]
                 ELSE [pc |-> "is_ready", i |-> 1, value |-> None, conn |-> <<>>]
    /\ UNCHANGED <<call, endpoint, now, writer, idle_state>>

\* if client.is_ready
sync_is_ready ==
    /\ reader.pc = "is_ready"
    /\ reader' = IF is_ready(list_of_clients[reader.i])
                 THEN [reader EXCEPT !.pc = "temperature_test"]
                 ELSE next_client
    /\ UNCHANGED <<call, endpoint, now, writer, idle_state>>

\* if client.last_temperature is not None / if client.last_production is not None
sync_test ==
    /\ reader.pc \in {"temperature_test", "production_test"}
    /\ LET c == list_of_clients[reader.i]
       IN reader' =
            IF reader.pc = "temperature_test"
            THEN [reader EXCEPT !.pc = IF last_temperature[c] # None
                                       THEN "temperature_value" ELSE "production_test"]
            ELSE IF last_production[c] # None
                 THEN [reader EXCEPT !.pc = "production_value"]
                 ELSE next_client
    /\ UNCHANGED <<call, endpoint, now, writer, idle_state>>

\* The value argument of the INSERT is read.
sync_value ==
    /\ reader.pc \in {"temperature_value", "production_value"}
    /\ LET c == list_of_clients[reader.i]
       IN reader' =
            IF reader.pc = "temperature_value"
            THEN [reader EXCEPT !.pc = "temperature_time", !.value = last_temperature[c]]
            ELSE [reader EXCEPT !.pc = "production_time", !.value = last_production[c]]
    /\ UNCHANGED <<call, endpoint, now, writer, idle_state>>

\* The timestamp is read and formatted: None.isoformat() raises, the
\* connection is closed without a commit and _sync_db logs the exception;
\* otherwise the INSERT is executed on the connection.
sync_time ==
    /\ reader.pc \in {"temperature_time", "production_time"}
    /\ LET c == list_of_clients[reader.i]
           temp == reader.pc = "temperature_time"
           time == IF temp THEN last_temperature_time[c] ELSE last_production_time[c]
           row == Insert(IF temp THEN "temperatures" ELSE "productions_measures",
                         c, reader.value, time)
       IN IF time = None
          THEN /\ reader' = [pc |-> "idle", i |-> 1, value |-> None, conn |-> <<>>]
               /\ call' = [NoCall EXCEPT !.op = "update_db_service",
                                         !.caught = "AttributeError"]
          ELSE /\ reader' = IF temp
                            THEN [reader EXCEPT !.pc = "production_test", !.value = None,
                                                !.conn = Append(@, row)]
                            ELSE [next_client EXCEPT !.conn = Append(@, row)]
               /\ UNCHANGED call
    /\ UNCHANGED <<endpoint, now, writer, idle_state>>

\* conn.commit()
sync_commit ==
    /\ reader.pc = "commit"
    /\ call' = [NoCall EXCEPT !.op = "update_db_service", !.committed = reader.conn]
    /\ reader' = [pc |-> "idle", i |-> 1, value |-> None, conn |-> <<>>]
    /\ UNCHANGED <<endpoint, now, writer, idle_state>>

\* One endpoint with its forecast and a connected driver.
InitThreadsRun ==
    /\ latitude = [o \in Obj |-> 0]
    /\ list_of_clients = <<1>>
    /\ clients_with_leaders = << <<1, 1>> >>
    /\ leaders = <<1>>
    /\ weather_infos = None
    /\ last_temperature = [o \in Obj |-> None]
    /\ last_temperature_time = [o \in Obj |-> None]
    /\ last_production = [o \in Obj |-> None]
    /\ last_production_time = [o \in Obj |-> None]
    /\ last_power = [o \in Obj |-> None]
    /\ last_power_time = [o \in Obj |-> None]
    /\ production_forecast = [o \in Obj |-> IF o = 1 THEN Some(1) ELSE None]
    /\ connexion = [o \in Obj |-> o = 1]
    /\ loop_running = [o \in Obj |-> o = 1]
    /\ subscriptions = [o \in Obj |-> IF o = 1 THEN {Topic(o, "DATA")} ELSE {}]
    /\ now = 0
    /\ call = NoCall
    /\ InitService

NextThreads ==
    \/ \E o \in Members : update_temperature_value(o)
    \/ \E o \in Members : update_temperature_time(o)
    \/ \E o \in Members : update_production_value(o)
    \/ \E o \in Members : update_production_time(o)
    \/ sync_begin
    \/ sync_is_ready
    \/ sync_test
    \/ sync_value
    \/ sync_time
    \/ sync_commit

SpecThreads == InitThreadsRun /\ [][NextThreads]_vars

\* ------------------------------------------------- start-up and reconnection
\* main._start_drivers: start() of every registered driver, in registry
\* order.  client.connect raises when the broker is unreachable, and then
\* start() skips loop_start(), logs and sets connexion to False; start()
\* itself never raises.
_start_drivers ==
    /\ ~started
    /\ started' = TRUE
    /\ loop_running' = [o \in Obj |-> IF InList(list_of_clients, o) /\ reachable
                                      THEN TRUE ELSE loop_running[o]]
    /\ connexion' = [o \in Obj |-> IF InList(list_of_clients, o) /\ ~reachable
                                   THEN FALSE ELSE connexion[o]]
    /\ call' = [NoCall EXCEPT !.op = "_start_drivers",
                              !.handled = list_of_clients]
    /\ UNCHANGED <<latitude, registry, endpoint, subscriptions, now, orchestrator,
                   serialization, correction, writer, reader, reachable, inbound, shutdown>>

\* The broker becomes reachable or unreachable.
BrokerFlips ==
    /\ reachable' = ~reachable
    /\ UNCHANGED <<latitude, registry, endpoint, driver, now, call, orchestrator,
                   serialization, correction, writer, reader, started, inbound, shutdown>>

\* The network loop of a started transport connects again as soon as the
\* broker answers, and reports the loss of the connection when it does not.
loop_connects(o) ==
    /\ reachable
    /\ ~connexion[o]
    /\ _on_connect_internal(o, 0)

loop_loses(o) ==
    /\ ~reachable
    /\ connexion[o]
    /\ _on_disconnect_internal(o)

\* Two endpoints as main() loads them: the start() their constructor made
\* has started the network loop or, its connect failing, has not.
InitConnect ==
    /\ latitude = [o \in Obj |-> 0]
    /\ list_of_clients = <<1, 2>>
    /\ clients_with_leaders = << <<1, 1>>, <<2, 1>> >>
    /\ leaders = <<1>>
    /\ weather_infos = None
    /\ last_temperature = [o \in Obj |-> None]
    /\ last_temperature_time = [o \in Obj |-> None]
    /\ last_production = [o \in Obj |-> None]
    /\ last_production_time = [o \in Obj |-> None]
    /\ last_power = [o \in Obj |-> None]
    /\ last_power_time = [o \in Obj |-> None]
    /\ production_forecast = [o \in Obj |-> None]
    /\ connexion = [o \in Obj |-> FALSE]
    /\ loop_running \in {f \in [Obj -> BOOLEAN] : \A o \in Obj \ {1, 2} : ~f[o]}
    /\ subscriptions = [o \in Obj |-> {}]
    /\ now = 0
    /\ call = NoCall
    /\ InitService

NextConnect ==
    \/ _start_drivers
    \/ BrokerFlips
    \/ \E o \in Members : loop_connects(o)
    \/ \E o \in Members : loop_loses(o)
    \/ \E o \in Members, msg \in SyncPayloads :
          /\ msg.PROD = None /\ msg.POUT = None
          /\ _on_mqtt_message_internal(o, msg)
    \/ \E conv \in [Members -> BOOLEAN] : update_weather([i \in 1..Len(leaders) |-> 1], conv)
    \/ \E o \in Members, d \in {Num(50), Num(Scale + 50), Str}, oks \in Oks :
          SendDecision(o, d, oks)
    \/ \E o \in Members, ok \in BOOLEAN : activate_safety_mode(o, ok)
    \/ \E o \in Members, sol \in TickSolver, oks \in Oks : process(o, sol, oks)

SpecConnect == InitConnect /\ [][NextConnect]_vars

\* main() starts the drivers, and the network loop of every started
\* transport keeps running.
FairConnect ==
    /\ SpecConnect
    /\ WF_vars(_start_drivers)
    /\ \A o \in Obj : WF_vars(loop_connects(o))

\* --------------------------------------------------------- inbound messages
\* The broker delivers a message on the data topic of endpoint o: the
\* network loop holds it and calls the receive handler with it.
deliver(o, msg) ==
    /\ loop_running[o]
    /\ Topic(o, "DATA") \in subscriptions[o]
    /\ inbound' = Some([client |-> o, msg |-> msg])
    /\ UNCHANGED <<latitude, registry, endpoint, driver, now, call, orchestrator,
                   serialization, correction, writer, reader, reachable, started, shutdown>>

\* The network loop calls on_message with the message it holds.
on_message ==
    /\ inbound # None
    /\ _on_mqtt_message_internal(inbound[1].client, inbound[1].msg)

NextMessage ==
    \/ \E o \in Members, msg \in Payloads : deliver(o, msg)
    \/ on_message

\* One endpoint with a connected and subscribed driver.
SpecMessage == InitThreadsRun /\ [][NextMessage]_vars

\* ------------------------------------------------------ forecast propagation
\* Two registered endpoints MINIMAL_DISTANCE apart, each its own leader,
\* with connected drivers; the fetch of each leader succeeds or fails at
\* every refresh and every conversion succeeds.
InitWeather ==
    /\ latitude = [o \in Obj |-> MINIMAL_DISTANCE * (o - 1)]
    /\ list_of_clients = <<1, 2>>
    /\ clients_with_leaders = << <<1, 1>>, <<2, 2>> >>
    /\ leaders = <<1, 2>>
    /\ weather_infos = None
    /\ last_temperature = [o \in Obj |-> None]
    /\ last_temperature_time = [o \in Obj |-> None]
    /\ last_production = [o \in Obj |-> None]
    /\ last_production_time = [o \in Obj |-> None]
    /\ last_power = [o \in Obj |-> None]
    /\ last_power_time = [o \in Obj |-> None]
    /\ production_forecast = [o \in Obj |-> None]
    /\ connexion = [o \in Obj |-> o \in {1, 2}]
    /\ loop_running = [o \in Obj |-> o \in {1, 2}]
    /\ subscriptions = [o \in Obj |-> IF o \in {1, 2} THEN {Topic(o, "DATA")} ELSE {}]
    /\ now = 0
    /\ call = NoCall
    /\ InitService

NextWeather ==
    \/ \E fetch \in FetchOutcomes : update_weather(fetch, [o \in Members |-> TRUE])
    \/ \E o \in Members, msg \in TickPayloads : _on_mqtt_message_internal(o, msg)

SpecWeather == InitWeather /\ [][NextWeather]_vars

\* ------------------------------------------------------------------ shutdown
\* The threads main() joins, in the order of its list, and the timeout of a
\* join in clock units (shorter than every interval).
Threads == <<"WeatherUpdater", "DBSync">>
join_timeout == 1

\* thread.join(timeout=5) is entered, once stopper.set() has been called.
join_begin ==
    /\ stopper
    /\ shutdown.pc = "join"
    /\ shutdown.i <= Len(Threads)
    /\ shutdown' = [shutdown EXCEPT !.pc = "joining",
                                    !.deadline = monotonic + join_timeout]
    /\ UNCHANGED <<latitude, registry, endpoint, driver, now, call, orchestrator,
                   serialization, correction, writer, reader, reachable, started, inbound>>

\* join returns, the thread having ended or the timeout being up; it raises
\* in neither case, so the except branch with its log entry is not entered
\* and is_alive() is not asked.  expired keeps the threads that were still
\* running at that time.
join_return ==
    /\ shutdown.pc = "joining"
    /\ LET t == Threads[shutdown.i]
       IN /\ runner[t].pc = "exit" \/ monotonic >= shutdown.deadline
          /\ shutdown' = [shutdown EXCEPT
                            !.pc = "join",
                            !.i = @ + 1,
                            !.expired = IF runner[t].pc = "exit" THEN @ ELSE @ \cup {t}]
    /\ UNCHANGED <<latitude, registry, endpoint, driver, now, call, orchestrator,
                   serialization, correction, writer, reader, reachable, started, inbound>>

\* logger.info("Service arrete proprement.")
shutdown_end ==
    /\ stopper
    /\ shutdown.pc = "join"
    /\ shutdown.i > Len(Threads)
    /\ shutdown' = [shutdown EXCEPT !.pc = "done"]
    /\ UNCHANGED <<latitude, registry, endpoint, driver, now, call, orchestrator,
                   serialization, correction, writer, reader, reachable, started, inbound>>

NextShutdown ==
    \/ \E t \in Tasks : runner_test(t) /\ UNCHANGED core
    \/ \E t \in Tasks, d \in {0, MaxDur} : runner_call(t, d, FALSE) /\ UNCHANGED core
    \/ \E t \in Tasks : runner_return(t) /\ UNCHANGED core
    \/ \E t \in Tasks : runner_wake(t) /\ UNCHANGED core
    \/ Stop /\ UNCHANGED core
    \/ Tick /\ UNCHANGED core
    \/ join_begin
    \/ join_return
    \/ shutdown_end

\* The periodic tasks over a registry that stays empty, and their shutdown.
SpecShutdown == InitFleet /\ [][NextShutdown]_vars

\* ================================================================ claims
Last(s) == s[Len(s)]

\* L is the first leader, in the order of leaders, at the least distance
\* from c, and that distance is below the threshold.
FirstNearestLeader(c, L) ==
    \E i \in 1..Len(leaders) :
        /\ leaders[i] = L
        /\ \A j \in 1..Len(leaders) : dist_km(c, leaders[i]) <= dist_km(c, leaders[j])
        /\ \A j \in 1..(i - 1) : dist_km(c, leaders[j]) > dist_km(c, leaders[i])
        /\ dist_km(c, leaders[i]) < MINIMAL_DISTANCE

\* C1: a successful register(C) appends C to the member list and one pair
\* (C, L) to the relation, where L is the first leader at the least distance
\* when that distance is below the threshold (leaders then unchanged);
\* in every other case the pair is (C, C) and C is appended to leaders.
C1_RegisterNearestLeader ==
    [][(call'.op = "add" /\ call'.raised = "none") =>
        LET c == call'.client
            pair == Last(clients_with_leaders')
        IN  /\ list_of_clients' = Append(list_of_clients, c)
            /\ clients_with_leaders' = Append(clients_with_leaders, pair)
            /\ pair[1] = c
            /\ IF \E L \in Obj : FirstNearestLeader(c, L)
               THEN /\ \A L \in Obj : (pair[2] = L) <=> FirstNearestLeader(c, L)
                    /\ leaders' = leaders
               ELSE /\ pair[2] = c
                    /\ leaders' = Append(leaders, c)]_vars

\* A client was just assigned to the first of two leaders at the same
\* least distance.
C1_Witness ==
    /\ call.op = "add" /\ call.raised = "none"
    /\ clients_with_leaders # <<>>
    /\ LET c == call.client
           L == Last(clients_with_leaders)[2]
       IN  /\ L # c
           /\ \E i, j \in 1..Len(leaders) :
                 /\ i < j /\ leaders[i] = L
                 /\ dist_km(c, leaders[j]) = dist_km(c, L)

PairsOf(c) == {k \in 1..Len(clients_with_leaders) : clients_with_leaders[k][1] = c}

\* C2: every endpoint of the member list is the first component of exactly
\* one pair of clients_with_leaders.
C2_ExactlyOnePair ==
    \A i \in 1..Len(list_of_clients) : Cardinality(PairsOf(list_of_clients[i])) = 1

\* C3: register with an id present in the member list raises
\* ClientAlreadyExists and changes none of the member list, the relation,
\* the leaders and the forecast cache.
C3_DuplicateRejected ==
    [][(call'.op = "add" /\ \E i \in 1..Len(list_of_clients) :
                               client_id(list_of_clients[i]) = client_id(call'.client)) =>
        /\ call'.raised = "ClientAlreadyExists"
        /\ UNCHANGED <<list_of_clients, clients_with_leaders, leaders, weather_infos>>]_vars

\* A client object that is not a member was just rejected because a member
\* has its id, on a registry that holds two members and a loaded cache.
C3_Witness ==
    /\ call.op = "add" /\ call.raised = "ClientAlreadyExists"
    /\ Len(list_of_clients) >= 2
    /\ \A i \in 1..Len(list_of_clients) : list_of_clients[i] # call.client
    /\ weather_infos # None /\ weather_infos # Some(EmptyDict)

\* C4: process() on an endpoint whose temperature or forecast is unset
\* calls neither the solver nor send_decision, publishes nothing, raises
\* nothing and changes no state of the endpoint, its driver or the registry.
C4_NotReadyNoOp ==
    [][(call'.op = "process" /\ (last_temperature[call'.client] = None
                                 \/ production_forecast[call'.client] = None)) =>
        /\ call'.solver_calls = 0
        /\ call'.send_calls = 0
        /\ call'.published = <<>>
        /\ call'.raised = "none"
        /\ UNCHANGED <<endpoint, driver, registry>>]_vars

\* process() just ran on a connected endpoint that has a temperature but
\* no forecast.
C4_Witness ==
    /\ call.op = "process" /\ call.solver_calls = 0
    /\ last_temperature[1] # None
    /\ production_forecast[1] = None
    /\ connexion[1]

\* C5: is_ready is true exactly when the temperature and the forecast are
\* both set, whatever the power and production readings, and once it is
\* true it stays true.
C5_ReadyIffBothSet ==
    [][\A o \in Obj :
        /\ is_ready(o)' <=> (last_temperature'[o] # None /\ production_forecast'[o] # None)
        /\ is_ready(o) => is_ready(o)']_vars

\* The endpoint is ready without any power or production reading, after a
\* refresh that gave it no new forecast.
C5_Witness ==
    /\ is_ready(1)
    /\ last_power[1] = None /\ last_production[1] = None
    /\ call.op = "update_weather"
    /\ weather_infos = Some(EmptyDict)

\* C6: process() on a ready endpoint raises nothing; it calls the solver
\* once at most and send_decision once at most, and when the solver raises,
\* the trajectory is empty or send_decision raises, nothing is published.
C6_ProcessContainsErrors ==
    [][(call'.op = "process" /\ last_temperature[call'.client] # None
                             /\ production_forecast[call'.client] # None) =>
        /\ call'.raised = "none"
        /\ call'.solver_calls <= 1
        /\ call'.send_calls <= 1
        /\ call'.caught \in {"SolverError", "IndexError"} => call'.send_calls = 0
        /\ call'.caught # "none" => call'.published = <<>>]_vars

\* send_decision raised inside process() on a ready, connected endpoint.
C6_Witness ==
    /\ call.op = "process" /\ call.send_calls = 1
    /\ call.caught = "ValueError"
    /\ connexion[1]

\* The topics and payloads of the publishes of the last call, in order.
Publishes == [i \in 1..Len(call.published) |->
                <<call.published[i].topic, call.published[i].payload>>]

ValidRatio(d) == d.kind = "float" /\ d.v >= 0 /\ d.v <= Scale

\* C7: on a connected driver, send_decision with a valid ratio publishes
\* "10" to SETMODE for 0, "12" to SETMODE for 1, and otherwise "14" to
\* SETMODE followed by the ratio times 100 to DIMMER1, and nothing else.
C7_DecisionEncoding ==
    [][(call'.op = "send_decision" /\ connexion[call'.client] /\ ValidRatio(call'.arg)) =>
        LET o == call'.client
            r == call'.arg.v
        IN  /\ call'.raised = "none"
            /\ Publishes' =
                 IF r = 0 THEN << <<Topic(o, "SETMODE"), StrPayload("10")>> >>
                 ELSE IF r = Scale THEN << <<Topic(o, "SETMODE"), StrPayload("12")>> >>
                 ELSE << <<Topic(o, "SETMODE"), StrPayload("14")>>,
                         <<Topic(o, "DIMMER1"), NumPayload((r * 100) \div Scale)>> >>]_vars

\* Ratio 0.5 was just sent on a connected driver: two publishes, 50 last.
C7_Witness ==
    /\ call.op = "send_decision" /\ connexion[1]
    /\ call.arg = Num(50)
    /\ Len(call.published) = 2
    /\ call.published[2].payload = NumPayload(50)

\* C8 as stated: send_decision with a non-numeric ratio raises a type
\* error and with a ratio outside [0,1] a range error, whatever the
\* connection state.
C8_InvalidAlwaysRaises ==
    [][(call'.op = "send_decision" /\ ~ValidRatio(call'.arg)) =>
        /\ call'.raised = (IF call'.arg.kind # "float" THEN "TypeError" ELSE "ValueError")
        /\ call'.published = <<>>
        /\ UNCHANGED driver]_vars

\* C8: on a connected driver, send_decision with a non-numeric ratio raises
\* a type error and with a ratio outside [0,1] a range error; on a driver
\* that is not connected it returns without raising.  In every case nothing
\* is published and the driver's state is unchanged.
C8_InvalidRaisesWhenConnected ==
    [][(call'.op = "send_decision" /\ ~ValidRatio(call'.arg)) =>
        /\ call'.raised = (IF ~connexion[call'.client] THEN "none"
                           ELSE IF call'.arg.kind # "float" THEN "TypeError"
                           ELSE "ValueError")
        /\ call'.published = <<>>
        /\ UNCHANGED driver]_vars

\* A ratio below 0 was just rejected with a range error on a connected
\* driver.
C8_Witness ==
    /\ call.op = "send_decision" /\ connexion[1]
    /\ call.arg = Num(0 - 50)
    /\ call.raised = "ValueError"

\* C9: no call publishes while the driver is not connected, and
\* send_decision (any argument) and activate_safety_mode on a driver that
\* is not connected raise nothing.
C9_NoPublishUnlessConnected ==
    [][/\ call'.published # <<>> => connexion[call'.client]
       /\ (call'.op \in {"send_decision", "activate_safety_mode"}
           /\ ~connexion[call'.client]) => call'.raised = "none"]_vars

\* Safety mode was just requested on a started driver that is not
\* connected.
C9_Witness ==
    /\ call.op = "activate_safety_mode"
    /\ ~connexion[1] /\ loop_running[1]
    /\ call.published = <<>>

\* C10: start() subscribes to nothing; a connected callback with result
\* code 0 sets the state to connected and subscribes to {serial}/DATA; so
\* whenever the driver is connected its session holds that subscription.
C10_SubscribeOnConnect ==
    [][/\ call'.op = "start" => (call'.subscribed = <<>> /\ subscriptions' = subscriptions)
       /\ (call'.op = "on_connect" /\ call'.arg.v = 0) =>
             /\ connexion'[call'.client]
             /\ call'.subscribed = <<Topic(call'.client, "DATA")>>
       /\ \A o \in Obj : connexion'[o] => Topic(o, "DATA") \in subscriptions'[o]]_vars

\* A connected callback just arrived on a driver that had already received
\* telemetry, so not its first connection; it is connected and subscribed.
C10_Witness ==
    /\ call.op = "on_connect" /\ connexion[1]
    /\ subscriptions[1] = {Topic(1, "DATA")}
    /\ last_temperature[1] # None

\* C11: an exception raised by a task's action, however many times in a
\* row, never ends that task's loop (a runner leaves its loop only once the
\* stop signal is set, and after a raising action it waits until the same
\* instant as after a returning one), and no step of one task touches
\* another task: every later invocation of a task happens exactly when its
\* wait runs out.
C11_TaskErrorsContained ==
    /\ [](\A t \in Tasks : runner[t].pc = "exit" => stopper)
    /\ [][\A t \in Tasks :
            /\ (runner[t].pc = "func" /\ runner'[t].pc # "func") =>
                  /\ runner'[t].pc = "wait"
                  /\ runner'[t].wake =
                        runner[t].start
                        + Max(interval_seconds(t), monotonic - runner[t].start)
            /\ (runner[t].pc = "call" /\ runner'[t].pc = "func"
                /\ Len(triggers[t]) > 0) => monotonic = runner[t].wake
            /\ runner'[t] # runner[t] =>
                  \A u \in Tasks \ {t} :
                      runner'[u] = runner[u] /\ triggers'[u] = triggers[u]]_vars

\* One task has failed three times in a row and is still looping while
\* another has gone through three invocations of its own.
C11_Witness ==
    \E t \in Tasks, u \in Tasks :
        /\ t # u
        /\ ~stopper
        /\ runner[t].failures >= 3
        /\ runner[t].pc = "wait"
        /\ Len(triggers[u]) >= 3
        /\ runner[u].failures = 0

\* C12: once the stop signal is set every task stops.  A runner found
\* waiting while the signal is set is there at the very instant the signal
\* was set or its own wait began; an iteration begins only after a test
\* that found the signal clear, and a test that finds it set leaves the
\* loop; a runner enters its action at most once with the signal set; and,
\* actions returning, the signal leads to every runner having left its loop.
C12_StopEndsEveryTask ==
    /\ [](\A t \in Tasks :
            /\ (stopper /\ runner[t].pc = "wait") =>
                  monotonic = Max(stopped_at, runner[t].until)
            /\ runner[t].late <= 1)
    /\ [][\A t \in Tasks :
            /\ (runner'[t].pc = "call" /\ runner[t].pc # "call") =>
                  (runner[t].pc = "test" /\ ~stopper)
            /\ (runner[t].pc = "test" /\ stopper /\ runner'[t] # runner[t]) =>
                  runner'[t].pc = "exit"]_vars
    /\ (stopper ~> \A t \in Tasks : runner[t].pc = "exit")

\* Every runner has left its loop, one of them after one more action begun
\* with the signal already set, another one woken before its wait was over.
C12_Witness ==
    /\ stopper
    /\ \A t \in Tasks : runner[t].pc = "exit"
    /\ \E t \in Tasks : runner[t].late = 1
    /\ \E u \in Tasks : monotonic < runner[u].wake /\ runner[u].late = 0

\* C13: the k-th invocation of a task's action is triggered k periods after
\* the first one, whatever the actions' durations.
C13_TriggerEveryPeriod ==
    \A t \in Tasks : \A k \in 1..Len(triggers[t]) :
        triggers[t][k] = triggers[t][1] + (k - 1) * interval_seconds(t)

\* C14: delete_client changes the member list only.  The pairs, the leaders
\* and the forecast cache are the same after the call as before it, also
\* when the removed client is a leader, so every other client keeps its
\* leader; the members other than the removed one stay; and removing a
\* client that is not a member leaves the member list as it was.
C14_RemoveOnlyMembers ==
    [][\A c \in Obj :
          (call'.op = "delete_client" /\ call'.client = c) =>
              /\ clients_with_leaders' = clients_with_leaders
              /\ leaders' = leaders
              /\ weather_infos' = weather_infos
              /\ UNCHANGED <<latitude, endpoint, driver>>
              /\ (\A i \in 1..Len(list_of_clients) : list_of_clients[i] # c)
                    => list_of_clients' = list_of_clients
              /\ \A e \in Obj \ {c} :
                    (\E i \in 1..Len(list_of_clients) : list_of_clients[i] = e)
                    <=> (\E i \in 1..Len(list_of_clients') : list_of_clients'[i] = e)
              /\ \A e \in Obj \ {c} :
                    \A i \in 1..Len(clients_with_leaders) :
                        clients_with_leaders[i][1] = e =>
                            clients_with_leaders'[i] = clients_with_leaders[i]]_vars

\* A leader with a cached forecast has just been removed while a member
\* that follows it is still registered.
C14_Witness ==
    /\ call.op = "delete_client"
    /\ \A i \in 1..Len(list_of_clients) : list_of_clients[i] # call.client
    /\ \E i \in 1..Len(leaders) : leaders[i] = call.client
    /\ weather_infos # None
    /\ client_id(call.client) \in DOMAIN weather_infos[1]
    /\ \E i \in 1..Len(clients_with_leaders) :
          /\ clients_with_leaders[i][2] = call.client
          /\ clients_with_leaders[i][1] # call.client
          /\ \E j \in 1..Len(list_of_clients) :
                list_of_clients[j] = clients_with_leaders[i][1]

\* C15: when update_forecasts returns, the cache has an entry under the id
\* of every leader whose fetch succeeded, also after an earlier leader's
\* fetch failed, no entry under the id of a leader whose fetch failed, and
\* no entry under any id that is not a leader's.
C15_CacheExactlySucceeded ==
    call.op = "update_forecasts" =>
        /\ \A i \in 1..Len(leaders) :
              call.fetched[i] # 0 <=> client_id(leaders[i]) \in DOMAIN weather_infos[1]
        /\ \A k \in DOMAIN weather_infos[1] :
              \E i \in 1..Len(leaders) : client_id(leaders[i]) = k

\* C16: in every state reached by registrations and removals, from an empty
\* registry or from one rebuilt from the users table by either loader, the
\* leader of every pair is one of the leaders.
C16_PairLeadersAreLeaders ==
    \A i \in 1..Len(clients_with_leaders) :
        \E j \in 1..Len(leaders) : leaders[j] = clients_with_leaders[i][2]

\* A registry rebuilt from stored references in which a client follows a
\* leader that is not its own leader, as no registration would arrange it,
\* and then changed by a removal and a registration.
C16_Witness ==
    /\ call.op = "add"
    /\ call.raised = "none"
    /\ Len(clients_with_leaders) > Len(list_of_clients)
    /\ \E i \in 1..Len(clients_with_leaders) :
          /\ clients_with_leaders[i][1] # clients_with_leaders[i][2]
          /\ \A j \in 1..Len(clients_with_leaders) :
                clients_with_leaders[j]
                    # <<clients_with_leaders[i][2], clients_with_leaders[i][2]>>

\* C17: the registry the service loads at startup (get_all_clients_engine)
\* gives every loaded client the leader its row records: the loaded client
\* its weather_ref names, or the client itself when the row names none.
C17_StartupKeepsStoredLeaders ==
    call.op = "get_all_clients_engine" =>
        \A j \in 1..Len(clients_with_leaders) :
            \E i \in 1..Len(call.rows) :
                /\ call.rows[i].id = clients_with_leaders[j][1]
                /\ clients_with_leaders[j][2] =
                      IF \E k \in 1..Len(list_of_clients) :
                            list_of_clients[k] = call.rows[i].weather_ref
                      THEN call.rows[i].weather_ref
                      ELSE call.rows[i].id

\* C18: for a driver built with a non-empty serial string, rebuilding a
\* driver from its serialized form never fails, the rebuilt driver has the
\* same serial, and every serialization of a rebuilt driver equals the
\* first one, which holds the serial under "serial_number" and nothing else.
C18_DriverDictRoundTrip ==
    /\ (call.op = "dict_to_device") =>
          /\ device # None
          /\ StrValue(device[1].serial) = first[1]["serial_number"]
    /\ data # None => data = first
    /\ first # None =>
          /\ DOMAIN first[1] = {"serial_number"}
          /\ first[1]["serial_number"].kind = "str"
          /\ first[1]["serial_number"].v # <<>>

\* A driver built with a two-character serial and one more configuration
\* key has been serialized, rebuilt and serialized again.
C18_Witness ==
    /\ call.op = "device_to_dict"
    /\ device # None
    /\ Len(device[1].serial) = 2
    /\ DOMAIN device[1].config = {"serial_number"}
    /\ data = first

\* The cache has been refreshed and holds no entry for the leader of o.
LeaderNotCached(o) ==
    /\ weather_infos # None
    /\ leader_id_of_client(o) # None
    /\ leader_id_of_client(o)[1] \notin DOMAIN weather_infos[1]

\* C19: once a refresh has left the cache without an entry for the leader
\* of an endpoint, process() on that endpoint calls neither the solver nor
\* send_decision.
C19_NoCachedLeaderSkips ==
    [][\A o \in Obj :
          (call'.op = "process" /\ call'.client = o /\ LeaderNotCached(o)) =>
              (call'.solver_calls = 0 /\ call'.send_calls = 0)]_vars

\* C19 as the code has it: a refresh that leaves the cache without an
\* entry for an endpoint's leader leaves the endpoint's forecast as it was;
\* process() then skips when the endpoint holds no earlier forecast, and
\* calls the solver on the earlier forecast when it holds one and has a
\* temperature.
C19_NoCachedLeaderKeepsForecast ==
    [][\A o \in Obj :
          /\ (call'.op = "update_weather" /\ LeaderNotCached(o)') =>
                production_forecast'[o] = production_forecast[o]
          /\ (call'.op = "process" /\ call'.client = o /\ LeaderNotCached(o)
              /\ production_forecast[o] = None) =>
                (call'.solver_calls = 0 /\ call'.send_calls = 0)
          /\ (call'.op = "process" /\ call'.client = o /\ LeaderNotCached(o)
              /\ production_forecast[o] # None /\ last_temperature[o] # None) =>
                call'.solver_calls = 1]_vars

\* process() has just skipped an endpoint that has a temperature but never
\* got a forecast, its leader's fetch having failed.
C19_Witness ==
    /\ call.op = "process"
    /\ call.solver_calls = 0
    /\ LeaderNotCached(call.client)
    /\ production_forecast[call.client] = None
    /\ last_temperature[call.client] # None

\* C20: one decision tick calls process() once on every client of the
\* registry, in the order of the registry, also when the processing of an
\* earlier client has run into an exception.
C20_TickProcessesAllInOrder ==
    call.op = "_process_clients" =>
        /\ Len(call.processed) = Len(list_of_clients)
        /\ \A i \in 1..Len(call.processed) :
              /\ call.processed[i].op = "process"
              /\ call.processed[i].client = list_of_clients[i]

\* In the tick just run, the solver raised for the first client and the
\* second client got its decision sent.
C20_Witness ==
    /\ call.op = "_process_clients"
    /\ Len(call.processed) = 2
    /\ call.processed[1].caught # "none"
    /\ call.processed[2].send_calls = 1
    /\ call.processed[2].published # <<>>

\* C21: an efficiency-correction run handles every endpoint of the registry,
\* whatever failure one of them meets.
C21_EveryEndpointHandled ==
    call.op \in {"_update_efficiency", "correct_efficiency"}
        => call.handled = list_of_clients

\* C22: an efficiency-correction run leaves the efficiency and the saved
\* profile of every endpoint that has not opted in as they were.
C22_OnlyOptedInChange ==
    [][call'.op \in {"_update_efficiency", "correct_efficiency"}
         => \A i \in 1..Len(list_of_clients) :
               LET c == list_of_clients[i]
               IN ~auto_correction[client_id(c)]
                     => /\ rendement_global'[c] = rendement_global[c]
                        /\ config_weather'[client_id(c)] = config_weather[client_id(c)]]_vars

\* C23: a telemetry-sync run writes, for every endpoint of the registry,
\* every buffered temperature, power and production reading whose value is
\* set, with the timestamp buffered for it.
C23_EveryBufferedReadingWritten ==
    [][call'.op \in {"_sync_db", "reports_data"} /\ call'.raised = "none" /\ call'.caught = "none"
         => \A i \in 1..Len(list_of_clients) :
               LET c == list_of_clients[i]
                   written == {call'.committed[k] : k \in 1..Len(call'.committed)}
               IN /\ last_temperature[c] # None
                       => [table |-> "temperatures", client_id |-> client_id(c),
                           value |-> last_temperature[c][1],
                           timestamp |-> last_temperature_time[c]] \in written
                  /\ last_power[c] # None
                       => [table |-> "decisions_measures", client_id |-> client_id(c),
                           value |-> last_power[c][1],
                           timestamp |-> last_power_time[c]] \in written
                  /\ last_production[c] # None
                       => [table |-> "productions_measures", client_id |-> client_id(c),
                           value |-> last_production[c][1],
                           timestamp |-> last_production_time[c]] \in written]_vars

\* C24: whatever the interleaving of the telemetry callbacks with the sync,
\* the sync never meets a value whose timestamp is unset, and every sample
\* it persists carries the timestamp of the callback that wrote its value
\* (the message carrying reading k is stamped at instant k).
C24_SamplesPairValueAndTimestamp ==
    call.op = "update_db_service"
        => /\ call.caught # "AttributeError"
           /\ \A k \in 1..Len(call.committed) :
                 call.committed[k].timestamp = Some(call.committed[k].value)

\* C26: a telemetry-sync run that fails part-way leaves none of its rows
\* in persistence; its rows are visible all together or not at all.
C26_RowsAllOrNone ==
    (call.op \in {"_sync_db", "reports_data"} /\ (call.raised # "none" \/ call.caught # "none"))
        => call.committed = <<>>

\* C25: once the drivers are started and the broker stays reachable, every
\* driver ends up connected, whatever the first connect attempt gave.
C25_ReachableBrokerLeadsToConnected ==
    <>[]reachable
        => <>(\A i \in 1..Len(list_of_clients) : connexion[list_of_clients[i]])

\* C28: the connection state changes only in a connect attempt or in a
\* connect or disconnect callback of the transport; no send_decision, no
\* activate_safety_mode, no telemetry callback and no process changes it,
\* and a mode publish that raises does not keep send_decision from
\* publishing the dimmer value.
C28_ConnectionChangesOnlyOnTransportEvents ==
    [][/\ connexion' # connexion
            => call'.op \in {"on_connect", "on_disconnect", "_start_drivers"}
       /\ (call' # call /\ call'.op \in {"send_decision", "activate_safety_mode",
                                         "on_message", "process"})
            => connexion' = connexion
       /\ (call' # call /\ call'.op = "send_decision" /\ call'.arg = Num(50)
             /\ connexion[call'.client])
            => /\ call'.raised = "none"
               /\ Len(call'.published) = 2
               /\ call'.published[2].topic = Topic(call'.client, "DIMMER1")]_vars

C28_Witness ==
    /\ call.op = "send_decision"
    /\ call.arg = Num(50)
    /\ connexion[call.client]
    /\ Len(call.published) = 2
    /\ ~call.published[1].ok
    /\ ~call.published[2].ok

\* The callbacks of one kind among the calls made.
CallsOf(callbacks, name) == {k \in 1..Len(callbacks) : callbacks[k][1] = name}

\* A field that is present with a number has its callback called once, with
\* that number; an absent field, or any field of a payload that does not
\* parse, has it not called.
FieldHandled(msg, callbacks, name, field) ==
    IF ~msg.parsed \/ field = None THEN CallsOf(callbacks, name) = {}
    ELSE IF field = Some(0) THEN TRUE
    ELSE /\ Cardinality(CallsOf(callbacks, name)) = 1
         /\ \A k \in CallsOf(callbacks, name) : callbacks[k][2] = field[1]

\* C27: the receive handler never raises; each of the fields TEMP1, PROD
\* and POUT is handled on its own, whatever the other fields hold; a payload
\* that does not parse calls no callback and changes no buffered field.
C27_FieldsHandledIndependently ==
    [][(inbound # None /\ inbound' = inbound)
          => LET msg == inbound[1].msg
             IN /\ call'.raised = "none"
                /\ FieldHandled(msg, call'.callbacks, "temperature", msg.TEMP1)
                /\ FieldHandled(msg, call'.callbacks, "production", msg.PROD)
                /\ FieldHandled(msg, call'.callbacks, "power", msg.POUT)
                /\ ~msg.parsed => (call'.callbacks = <<>> /\ telemetry' = telemetry)]_vars

\* C29: a refresh leaves the forecast of every endpoint whose leader has no
\* entry in the cache as it was, and gives every other endpoint of the
\* registry, before or after it, the forecast of its leader.
C29_OnlyMissingLeadersKeepForecast ==
    [][call'.op = "update_weather"
         => \A i \in 1..Len(list_of_clients) :
               LET c == list_of_clients[i]
                   leader_id == leader_id_of_client(c)[1]
                   dico == weather_infos'[1]
               IN IF leader_id \in DOMAIN dico
                  THEN production_forecast'[c] = Some(dico[leader_id])
                  ELSE production_forecast'[c] = production_forecast[c]]_vars

\* The refresh has just left the first endpoint, whose leader's fetch
\* failed, with its earlier forecast and has updated the second.
C29_Witness ==
    /\ call.op = "update_weather"
    /\ call.fetched[1] = 0
    /\ call.fetched[2] # 0
    /\ production_forecast[1] # None
    /\ production_forecast[2] = Some(call.fetched[2])
    /\ 1 \notin DOMAIN weather_infos[1]

\* The same with the endpoints in the other order: the first is updated,
\* the second keeps its earlier forecast.
C29_WitnessBefore ==
    /\ call.op = "update_weather"
    /\ call.fetched[1] # 0
    /\ call.fetched[2] = 0
    /\ production_forecast[1] = Some(call.fetched[1])
    /\ production_forecast[2] # None
    /\ 2 \notin DOMAIN weather_infos[1]

\* C30: when the shutdown is over, every task that was still running when
\* the timeout of its join expired has a log entry naming it.
C30_LateTasksAreLogged ==
    shutdown.pc = "done" => shutdown.expired \subseteq shutdown.logged

====
